---- MODULE Spec2Model ----
(***************************************************************************)
(* Model of src/Python/mnist_nets.py: the function mnist_convnet, which    *)
(* builds a tflearn network descriptor by thirteen layer-constructor       *)
(* calls.                                                                  *)
(*                                                                         *)
(* Conventions.                                                            *)
(*  - Python floats are written in thousandths: 0.001 is 1, 0.8 is 800,    *)
(*    1.5 is 1500, -0.1 is -100.                                           *)
(*  - A tensor returned by a layer constructor is the sequence of the      *)
(*    layer records built so far (the constructor appends its own record   *)
(*    to the incoming tensor).  The tflearn library is not part of the     *)
(*    repository; a constructor either returns such a tensor or raises,    *)
(*    and which of the two happens is the library's choice.                *)
(*  - The program counter pc is the source line about to be executed.      *)
(***************************************************************************)
EXTENDS Integers, Sequences, FiniteSets, TLC

VARIABLES
    pc,             \* 0 (no call in progress) or the line to execute
    train_images,   \* parameter of mnist_convnet
    train_labels,   \* parameter of mnist_convnet
    learning_rate,  \* parameter of mnist_convnet
    drop_prob,      \* parameter of mnist_convnet
    network,        \* local variable of mnist_convnet
    supplied,       \* the arguments the caller wrote in the current call
    log,            \* layer-constructor calls made by the current call
    prev            \* the most recent completed call, as its caller saw it

vars == <<pc, train_images, train_labels, learning_rate, drop_prob, network,
          supplied, log, prev>>

locals == <<train_images, train_labels, learning_rate, drop_prob>>

-----------------------------------------------------------------------------
(* Argument values the callers use.                                        *)

ImageValues == {"None", "images"}
LabelValues == {"None", "labels"}
MaxLearningRate == 2
LearningRates == 1..MaxLearningRate
KeepProbs == {800, 1500, -100}

NoKeywords == [k \in {} |-> 0]

KeywordArgs ==
    {a @@ b : a \in {NoKeywords} \cup {("learning_rate" :> v) : v \in LearningRates},
              b \in {NoKeywords} \cup {("drop_prob" :> v) : v \in KeepProbs}}

Arguments ==
    [train_images : ImageValues, train_labels : LabelValues, kw : KeywordArgs]

-----------------------------------------------------------------------------
(* Line 1: the signature and its default values.                           *)

DefaultLearningRate == 1
DefaultDropProb == 800

BindLearningRate(kw) ==
    IF "learning_rate" \in DOMAIN kw THEN kw["learning_rate"] ELSE DefaultLearningRate

\* The default of drop_prob mistyped.
BindDropProb_OtherDefault(kw) ==
    IF "drop_prob" \in DOMAIN kw THEN kw["drop_prob"] ELSE 500

BindDropProb(kw) ==
    IF "drop_prob" \in DOMAIN kw THEN kw["drop_prob"] ELSE DefaultDropProb

-----------------------------------------------------------------------------
(* The tflearn layer constructors imported at lines 2-5.                   *)

input_data(shape, name) ==
    <<[kind |-> "input_data", shape |-> shape, name |-> name]>>

conv_2d(incoming, nb_filter, filter_size, activation, regularizer, name) ==
    Append(incoming, [kind |-> "conv_2d", nb_filter |-> nb_filter,
                      filter_size |-> filter_size, activation |-> activation,
                      regularizer |-> regularizer, name |-> name])

max_pool_2d(incoming, kernel_size, name) ==
    Append(incoming, [kind |-> "max_pool_2d", kernel_size |-> kernel_size,
                      name |-> name])

local_response_normalization(incoming) ==
    Append(incoming, [kind |-> "local_response_normalization"])

fully_connected(incoming, n_units, activation, name) ==
    Append(incoming, [kind |-> "fully_connected", n_units |-> n_units,
                      activation |-> activation, name |-> name])

dropout(incoming, keep_prob, name) ==
    Append(incoming, [kind |-> "dropout", keep_prob |-> keep_prob, name |-> name])

regression(incoming, optimizer, lr, loss, name) ==
    Append(incoming, [kind |-> "regression", optimizer |-> optimizer,
                      learning_rate |-> lr, loss |-> loss, name |-> name])

-----------------------------------------------------------------------------
(* Calling, returning and raising.                                         *)

NoTensor == <<>>
NoCall == [outcome |-> "none"]

\* How a completed call ended.
Returned(call) == call.outcome = "returned"
Raised(call) == call.outcome = "raised"

Unwind ==
    /\ pc' = 0
    /\ train_images' = "unbound"
    /\ train_labels' = "unbound"
    /\ learning_rate' = 0
    /\ drop_prob' = 0
    /\ network' = NoTensor
    /\ supplied' = NoKeywords
    /\ log' = <<>>

Completed(outcome, calls, result, exception) ==
    [outcome |-> outcome, supplied |-> supplied,
     learning_rate |-> learning_rate, drop_prob |-> drop_prob,
     log |-> calls, result |-> result, exception |-> exception]

\* An exception raised inside a constructor leaves mnist_convnet at once:
\* the function has no try statement.
Propagate(entry) ==
    /\ prev' = Completed("raised", Append(log, entry), NoTensor,
                         [type |-> "LibraryError", raised_by |-> entry.layer.kind])
    /\ Unwind

\* A statement  network = constructor(...)  at some line.
Construct(incoming, built, next) ==
    \E ok \in BOOLEAN :
        LET entry == [incoming |-> incoming, layer |-> built[Len(built)],
                      raised |-> ~ok,
                      returned |-> IF ok THEN built ELSE NoTensor]
        IN  IF ok
            THEN /\ network' = built
                 /\ log' = Append(log, entry)
                 /\ pc' = next
                 /\ UNCHANGED <<locals, supplied, prev>>
            ELSE Propagate(entry)

mnist_convnet ==
    /\ pc = 0
    /\ \E args \in Arguments :
        /\ supplied' = args
        /\ train_images' = args.train_images
        /\ train_labels' = args.train_labels
        /\ learning_rate' = BindLearningRate(args.kw)
        /\ drop_prob' = BindDropProb(args.kw)
    /\ pc' = 2
    /\ UNCHANGED <<network, log, prev>>

Imports ==
    /\ pc = 2
    /\ pc' = 8
    /\ UNCHANGED <<locals, network, supplied, log, prev>>

\* The input shape taken from the images.
Line8_ShapeFromImages ==
    /\ pc = 8
    /\ Construct(NoTensor,
                 input_data(IF train_images = "None" THEN <<"None", 28, 28, 1>>
                            ELSE <<"None", 32, 32, 3>>, "input"), 9)

\* The input placeholder kept from the earlier call instead of built anew.
Line8_Cached ==
    /\ pc = 8
    /\ IF Returned(prev)
       THEN /\ network' = <<prev.result[1]>>
            /\ pc' = 9
            /\ UNCHANGED <<locals, supplied, log, prev>>
       ELSE Construct(NoTensor, input_data(<<"None", 28, 28, 1>>, "input"), 9)

Line8 ==
    /\ pc = 8
    /\ Construct(NoTensor, input_data(<<"None", 28, 28, 1>>, "input"), 9)

Line9 ==
    /\ pc = 9
    /\ Construct(network, conv_2d(network, 32, 3, "relu", "L2", "conv2D"), 10)

Line10 ==
    /\ pc = 10
    /\ Construct(network, max_pool_2d(network, 2, "max_pool_2d"), 11)

Line11 ==
    /\ pc = 11
    /\ Construct(network, local_response_normalization(network), 12)

\* Line 9 pasted at line 12 without changing the filter count.
Line12_CopyPaste ==
    /\ pc = 12
    /\ Construct(network, conv_2d(network, 32, 3, "relu", "L2", "conv2D"), 13)

Line12 ==
    /\ pc = 12
    /\ Construct(network, conv_2d(network, 64, 3, "relu", "L2", "conv2D"), 13)

\* The pooled tensor assigned to another name, so that line 14 receives the
\* tensor of line 12.
Line13_Dropped ==
    /\ pc = 13
    /\ \E ok \in BOOLEAN :
        LET built == max_pool_2d(network, 2, "max_pool_2d")
            entry == [incoming |-> network, layer |-> built[Len(built)],
                      raised |-> ~ok,
                      returned |-> IF ok THEN built ELSE NoTensor]
        IN  IF ok
            THEN /\ log' = Append(log, entry)
                 /\ pc' = 14
                 /\ UNCHANGED <<locals, network, supplied, prev>>
            ELSE Propagate(entry)

Line13 ==
    /\ pc = 13
    /\ Construct(network, max_pool_2d(network, 2, "max_pool_2d"), 14)

Line14 ==
    /\ pc = 14
    /\ Construct(network, local_response_normalization(network), 15)

Line15 ==
    /\ pc = 15
    /\ Construct(network, fully_connected(network, 128, "tanh", "tabh"), 16)

\* A range check of drop_prob ahead of the first dropout call.
Line16_Validating ==
    /\ pc = 16
    /\ IF drop_prob < 0 \/ drop_prob > 1000
       THEN /\ prev' = Completed("raised", log, NoTensor,
                                 [type |-> "ValueError", raised_by |-> "mnist_convnet"])
            /\ Unwind
       ELSE Construct(network, dropout(network, drop_prob, "dropout"), 17)

Line16 ==
    /\ pc = 16
    /\ Construct(network, dropout(network, drop_prob, "dropout"), 17)

\* The width of the second hidden layer made to follow drop_prob.
Line17_Scaled ==
    /\ pc = 17
    /\ Construct(network,
                 fully_connected(network,
                                 IF drop_prob = DefaultDropProb THEN 256 ELSE 512,
                                 "tanh", "tabh"), 18)

Line17 ==
    /\ pc = 17
    /\ Construct(network, fully_connected(network, 256, "tanh", "tabh"), 18)

\* A literal keep-probability in the second dropout layer.
Line18_Literal ==
    /\ pc = 18
    /\ Construct(network, dropout(network, 500, "dropout"), 19)

Line18 ==
    /\ pc = 18
    /\ Construct(network, dropout(network, drop_prob, "dropout"), 19)

\* The class count taken from the labels.
Line19_FromLabels ==
    /\ pc = 19
    /\ Construct(network,
                 fully_connected(network, IF train_labels = "None" THEN 10 ELSE 2,
                                 "softmax", "softmax"), 20)

Line19 ==
    /\ pc = 19
    /\ Construct(network, fully_connected(network, 10, "softmax", "softmax"), 20)

\* The learning_rate parameter forgotten in the regression call.
Line20_DefaultRate ==
    /\ pc = 20
    /\ Construct(network,
                 regression(network, "adam", DefaultLearningRate,
                            "categorical_crossentropy", "target"), 22)

Line20 ==
    /\ pc = 20
    /\ Construct(network,
                 regression(network, "adam", learning_rate,
                            "categorical_crossentropy", "target"), 22)

Line22 ==
    /\ pc = 22
    /\ prev' = Completed("returned", log, network, [type |-> "none"])
    /\ Unwind

Init ==
    /\ pc = 0
    /\ train_images = "unbound"
    /\ train_labels = "unbound"
    /\ learning_rate = 0
    /\ drop_prob = 0
    /\ network = NoTensor
    /\ supplied = NoKeywords
    /\ log = <<>>
    /\ prev = NoCall

Next ==
    \/ mnist_convnet
    \/ Imports
    \/ Line8
    \/ Line9
    \/ Line10
    \/ Line11
    \/ Line12
    \/ Line13
    \/ Line14
    \/ Line15
    \/ Line16
    \/ Line17
    \/ Line18
    \/ Line19
    \/ Line20
    \/ Line22

Spec == Init /\ [][Next]_vars

-----------------------------------------------------------------------------
(* Vocabulary of the properties.                                           *)


\* A layer record without the name the code gave it.
Unnamed(layer) == [f \in DOMAIN layer \ {"name"} |-> layer[f]]

\* The layers of a tensor, input first, without their names.
Topology(tensor) == [i \in 1..Len(tensor) |-> Unnamed(tensor[i])]

\* The constructor calls of a log, in the order they were issued.
Requests(calls) == [i \in 1..Len(calls) |-> Unnamed(calls[i].layer)]

\* The thirteen layers of section 4.1 for keep-probability kp and learning
\* rate lr.
Section41(kp, lr) ==
    << [kind |-> "input_data", shape |-> <<"None", 28, 28, 1>>],
       [kind |-> "conv_2d", nb_filter |-> 32, filter_size |-> 3,
        activation |-> "relu", regularizer |-> "L2"],
       [kind |-> "max_pool_2d", kernel_size |-> 2],
       [kind |-> "local_response_normalization"],
       [kind |-> "conv_2d", nb_filter |-> 64, filter_size |-> 3,
        activation |-> "relu", regularizer |-> "L2"],
       [kind |-> "max_pool_2d", kernel_size |-> 2],
       [kind |-> "local_response_normalization"],
       [kind |-> "fully_connected", n_units |-> 128, activation |-> "tanh"],
       [kind |-> "dropout", keep_prob |-> kp],
       [kind |-> "fully_connected", n_units |-> 256, activation |-> "tanh"],
       [kind |-> "dropout", keep_prob |-> kp],
       [kind |-> "fully_connected", n_units |-> 10, activation |-> "softmax"],
       [kind |-> "regression", optimizer |-> "adam", learning_rate |-> lr,
        loss |-> "categorical_crossentropy"] >>

-----------------------------------------------------------------------------
(* C1: a call that passes only train_images and train_labels returns a     *)
(* topology of exactly 13 layers, which are those of section 4.1 with      *)
(* keep-probability 0.8 and learning rate 0.001, and the constructors were *)
(* called in that same order.                                              *)
C1_DefaultTopology ==
    (Returned(prev) /\ prev.supplied.kw = NoKeywords) =>
        /\ Len(prev.result) = 13
        /\ Topology(prev.result) = Section41(800, 1)
        /\ Requests(prev.log) = Section41(800, 1)

C1_Witness ==
    /\ Returned(prev)
    /\ prev.supplied.kw = NoKeywords
    /\ Len(prev.result) = 13

-----------------------------------------------------------------------------
\* The layers of the given kind among the constructor calls of a log.
OfKind(calls, kind) == {i \in 1..Len(calls) : calls[i].layer.kind = kind}

\* The calls the state knows: the one in progress and the last completed.
InProgress == pc # 0
Known ==
    (IF InProgress THEN {[supplied |-> supplied, log |-> log]} ELSE {})
    \cup (IF prev = NoCall THEN {} ELSE {[supplied |-> prev.supplied, log |-> prev.log]})

(* C2: every dropout constructor call of a call receives the keep-         *)
(* probability the caller supplied as drop_prob; the dropout layers of one *)
(* call never differ from each other, and a returned topology has exactly  *)
(* two of them, both holding that value.                                   *)
C2_SharedKeepProb ==
    /\ \A c \in Known :
        /\ \A i, j \in OfKind(c.log, "dropout") :
               c.log[i].layer.keep_prob = c.log[j].layer.keep_prob
        /\ "drop_prob" \in DOMAIN c.supplied.kw =>
               \A i \in OfKind(c.log, "dropout") :
                   c.log[i].layer.keep_prob = c.supplied.kw["drop_prob"]
    /\ Returned(prev) =>
        LET layers == {i \in 1..Len(prev.result) : prev.result[i].kind = "dropout"}
        IN  /\ layers = {9, 11}
            /\ prev.result[9].keep_prob = prev.result[11].keep_prob
            /\ "drop_prob" \in DOMAIN prev.supplied.kw =>
                   prev.result[9].keep_prob = prev.supplied.kw["drop_prob"]

\* Two consecutive calls with different keep-probabilities, each with both
\* dropout layers built.
C2_Witness ==
    /\ Returned(prev)
    /\ "drop_prob" \in DOMAIN prev.supplied.kw
    /\ prev.supplied.kw["drop_prob"] = 1500
    /\ pc = 22
    /\ "drop_prob" \in DOMAIN supplied.kw
    /\ supplied.kw["drop_prob"] = -100
    /\ Cardinality(OfKind(log, "dropout")) = 2

(* C3: the regression call receives exactly the learning rate the caller   *)
(* supplied, with optimizer adam and loss categorical cross-entropy, and   *)
(* the returned topology ends in that one regression layer.                *)
C3_LearningRate ==
    /\ \A c \in Known :
        \A i \in OfKind(c.log, "regression") :
            /\ c.log[i].layer.optimizer = "adam"
            /\ c.log[i].layer.loss = "categorical_crossentropy"
            /\ "learning_rate" \in DOMAIN c.supplied.kw =>
                   c.log[i].layer.learning_rate = c.supplied.kw["learning_rate"]
    /\ Returned(prev) =>
        LET n == Len(prev.result)
        IN  /\ {i \in 1..n : prev.result[i].kind = "regression"} = {n}
            /\ prev.result[n].optimizer = "adam"
            /\ prev.result[n].loss = "categorical_crossentropy"
            /\ "learning_rate" \in DOMAIN prev.supplied.kw =>
                   prev.result[n].learning_rate = prev.supplied.kw["learning_rate"]

C3_Witness ==
    /\ Returned(prev)
    /\ "learning_rate" \in DOMAIN prev.supplied.kw
    /\ prev.supplied.kw["learning_rate"] = 2
    /\ prev.result[Len(prev.result)].kind = "regression"

\* The keyword arguments with the omitted ones written out as 0.001 and 0.8.
WrittenOut(kw) ==
    [learning_rate |-> IF "learning_rate" \in DOMAIN kw THEN kw["learning_rate"] ELSE 1,
     drop_prob |-> IF "drop_prob" \in DOMAIN kw THEN kw["drop_prob"] ELSE 800]

(* C4: two calls with the same train_images and train_labels whose keyword *)
(* arguments agree once an omitted learning_rate is read as 0.001 and an   *)
(* omitted drop_prob as 0.8 make the same constructor calls and return the *)
(* same topology; in particular mnist_convnet(None, None) and              *)
(* mnist_convnet(None, None, learning_rate=0.001, drop_prob=0.8) do.       *)
C4_DefaultEquivalence ==
    (/\ Returned(prev)
     /\ pc = 22
     /\ prev.supplied.train_images = supplied.train_images
     /\ prev.supplied.train_labels = supplied.train_labels
     /\ WrittenOut(prev.supplied.kw) = WrittenOut(supplied.kw)) =>
        /\ network = prev.result
        /\ log = prev.log

\* mnist_convnet(None, None) has returned and the call with both defaults
\* written out is about to return.
C4_Witness ==
    /\ Returned(prev)
    /\ prev.supplied = [train_images |-> "None", train_labels |-> "None",
                        kw |-> NoKeywords]
    /\ pc = 22
    /\ supplied = [train_images |-> "None", train_labels |-> "None",
                   kw |-> [learning_rate |-> 1, drop_prob |-> 800]]

(* C5: whatever the arguments, the tensor handed to the regression call    *)
(* ends in a fully-connected layer of exactly 10 units, and that layer is  *)
(* the last fully-connected layer of a returned topology.                  *)
C5_TenUnits ==
    /\ \A c \in Known :
        \A i \in OfKind(c.log, "regression") :
            LET wrapped == c.log[i].incoming[Len(c.log[i].incoming)]
            IN  /\ wrapped.kind = "fully_connected"
                /\ wrapped.n_units = 10
    /\ Returned(prev) =>
        LET dense == {i \in 1..Len(prev.result) :
                          prev.result[i].kind = "fully_connected"}
            last == CHOOSE i \in dense : \A j \in dense : j <= i
        IN  /\ dense # {}
            /\ last = Len(prev.result) - 1
            /\ prev.result[last].n_units = 10

\* A call with labels and non-default keywords has returned.
C5_Witness ==
    /\ Returned(prev)
    /\ prev.supplied.train_labels = "labels"
    /\ prev.supplied.train_images = "images"
    /\ prev.supplied.kw = [learning_rate |-> 2, drop_prob |-> -100]
    /\ Len(prev.result) = 13

-----------------------------------------------------------------------------
\* What a log shows of the calls issued: each call's incoming tensor and the
\* arguments it was given, names included.
Issued(calls) ==
    [i \in 1..Len(calls) |-> [incoming |-> calls[i].incoming, layer |-> calls[i].layer]]

IsPrefix(a, b) ==
    /\ Len(a) <= Len(b)
    /\ \A i \in 1..Len(a) : a[i] = b[i]

\* Two calls did the same thing as far as both of them got.
SameSoFar(a, b) == IsPrefix(Issued(a), Issued(b)) \/ IsPrefix(Issued(b), Issued(a))

SameRates == prev.learning_rate = learning_rate /\ prev.drop_prob = drop_prob

DataDiffer ==
    \/ prev.supplied.train_images # train_images
    \/ prev.supplied.train_labels # train_labels

(* C6: two calls that agree on learning_rate and drop_prob and differ in   *)
(* train_images or train_labels issue the same constructor calls with the  *)
(* same arguments as far as both get, and when both return they return the *)
(* same topology.                                                          *)
C6_DataIgnored ==
    (prev # NoCall /\ InProgress /\ SameRates /\ DataDiffer) =>
        /\ SameSoFar(prev.log, log)
        /\ (Returned(prev) /\ pc = 22) => network = prev.result

\* Both calls ran to their return statement, with different images and
\* different labels.
C6_Witness ==
    /\ Returned(prev)
    /\ pc = 22
    /\ SameRates
    /\ prev.supplied.train_images # train_images
    /\ prev.supplied.train_labels # train_labels

EarlierCallKept == (pc # 0 /\ pc' # 0) => prev' = prev

Blank(layer) ==
    [f \in DOMAIN layer |->
        IF f \in {"keep_prob", "learning_rate"} THEN 0 ELSE layer[f]]

Skeleton(layers) == [i \in 1..Len(layers) |-> Blank(layers[i])]

\* Section 4.1 with those two values blanked.
Section41Skeleton == Skeleton(Section41(0, 0))

(* C9: apart from the keep-probability of dropout layers and the learning  *)
(* rate of the regression layer, the constructor calls of every call are   *)
(* the literals of section 4.1 in that order, and every returned topology  *)
(* is those 13 layers.                                                     *)
C9_FixedSkeleton ==
    /\ \A c \in Known :
        IsPrefix(Skeleton(Requests(c.log)), Section41Skeleton)
    /\ Returned(prev) =>
        Skeleton(Topology(prev.result)) = Section41Skeleton

\* A call with images, labels and both keywords away from their defaults
\* has returned.
C9_Witness ==
    /\ Returned(prev)
    /\ prev.supplied = [train_images |-> "images", train_labels |-> "labels",
                        kw |-> [learning_rate |-> 2, drop_prob |-> 1500]]
    /\ Len(prev.result) = 13

\* The logs of the call in progress and of the last completed call.
Logs == {log} \cup (IF prev = NoCall THEN {} ELSE {prev.log})

(* C10: the first constructor call takes no incoming tensor, every later   *)
(* one takes the tensor the call before it returned, the local variable    *)
(* network holds the tensor of the latest call, and the caller receives    *)
(* the tensor the regression call returned.                                *)
C10_LinearChain ==
    /\ \A calls \in Logs :
        /\ Len(calls) >= 1 => calls[1].incoming = NoTensor
        /\ \A i \in 2..Len(calls) : calls[i].incoming = calls[i - 1].returned
    /\ Len(log) >= 1 => network = log[Len(log)].returned
    /\ Returned(prev) =>
        /\ prev.log[Len(prev.log)].layer.kind = "regression"
        /\ prev.result = prev.log[Len(prev.log)].returned

C10_Witness ==
    /\ Returned(prev)
    /\ Len(prev.log) = 13
    /\ pc = 15
    /\ Len(log) = 7

====
